---- MODULE Spec2Model ----
(***************************************************************************)
(* Model of bittensor/_neuron/text/core_server/run.py (serve): the epoch    *)
(* control loop, the backward-gradient dispatcher (backward_callback), the  *)
(* blacklist policy chain with its rate-limit check (time_check), and of    *)
(* from_forward_response_proto of bittensor/_synapse/text_seq2seq/call.py.  *)
(***************************************************************************)
EXTENDS Integers, Sequences, FiniteSets, TLC

(* ------------------------------ bounds --------------------------------- *)
\* longest synapse list handed to one backward_callback call (SpecDispatch)
MaxBatch == 3
\* longest synapse list of the calls of Spec and SpecCount
MaxShortBatch == 2
\* largest first dimension of inputs_x[index]
MaxSamples == 2
\* backward_callback calls one serving thread makes
MaxCalls == 1
\* backward_callback calls of the single caller of SpecCount
MaxSeqCalls == 2
\* highest block height the chain reaches
MaxBlock == 3
\* largest config.neuron.blocks_per_epoch
MaxBlocksPerEpoch == 1
\* largest config.neuron.blocks_per_set_weights
MaxBlocksPerSetWeights == 1
\* largest per-iteration training loss
MaxLoss == 2
\* latest wall-clock second datetime.now() returns
MaxTime == 4
\* largest config.neuron.blacklist.time, in seconds
MaxBlacklistTime == 2
\* time_check calls recorded per run
MaxChecks == 3
\* responses handed to one forward call object
MaxResponses == 2
\* protos handed to from_forward_request_proto of that object
MaxRequests == 1
\* optimizer steps after which the axon stops calling optimizer_step
MaxOptimizerSteps == 2
\* largest subtensor.n
MaxPeers == 3
\* peers that may register between two reads of subtensor.n
MaxJoined == 1

(* ------------------------------ state ---------------------------------- *)
VARIABLES
    \* configuration (fixed after construction)
    remote_train, local_train, blocks_per_epoch, blocks_per_set_weights,
    blacklist_time, synapse_callbacks,
    \* external clocks
    block, now,
    \* model / optimizer
    backward_gradients_count, backward_gradients, grad, optimizer_steps,
    best_loss, saved, lr,
    \* the Lock() of line 73: "free" or the thread holding it
    mutex,
    \* scheduler (the while True loop)
    pcS, iteration, current_block, end_block, last_set_block, losses,
    local_data, did_set,
    \* history of the scheduler: the set_weights calls made so far, and the value
    \* of backward_gradients_count when the last optimizer step was applied
    set_weights_calls, count_at_update,
    \* the entries of the try of line 352: the block of each, and whether
    \* set_weights was reached
    commit_attempts,
    \* history of the epoch: the loss of each of its training iterations
    epoch_losses,
    \* the loop's local uid (line 286)
    uid,
    \* dispatcher threads (backward_callback)
    pcD, synapses, index, response_codes, response_messages, entered,
    count_read, ncalls, invoked, count_at_call,
    \* rate-limit threads (time_check)
    timecheck, pcT, pubkey, current_time, prev_time, verdict, history,
    \* the last blacklist(pubkey, request_type) call: its arguments, what the
    \* metagraph holds for the caller, and the value returned
    bl,
    \* a TextSeq2SeqForwardCall (call.py): its generations slot, the responses
    \* handed to from_forward_response_proto, what the last call raised, and the
    \* deserializer invocations
    generations, responses, raised, deserialized,
    \* the protos handed to from_forward_request_proto
    requests,
    \* the ledger: subtensor.n, the number of peers on the chain, and the index
    \* of the wallet's hotkey in metagraph.hotkeys
    subtensor_n, hotkey_uid, metagraph_syncs,
    \* a serving thread inside axon.optimizer_step (lines 103-105): "idle", or
    \* "zero_grad" between optimizer.step() and optimizer.zero_grad()
    pcA

cfgVars == <<remote_train, local_train, blocks_per_epoch, blocks_per_set_weights,
             blacklist_time, synapse_callbacks>>
modelVars == <<backward_gradients_count, backward_gradients, grad, optimizer_steps,
               best_loss, saved, lr>>
schedVars == <<pcS, iteration, current_block, end_block, last_set_block, losses,
               local_data, did_set, set_weights_calls, commit_attempts, count_at_update,
               epoch_losses, uid>>
dispVars == <<pcD, synapses, index, response_codes, response_messages, entered,
              count_read, ncalls, invoked, count_at_call>>
rateVars == <<timecheck, pcT, pubkey, current_time, prev_time, verdict, history>>
blVars == <<bl>>
callVars == <<generations, responses, raised, deserialized, requests>>
ledgerVars == <<subtensor_n, hotkey_uid, metagraph_syncs>>
axonVars == <<pcA>>
vars == <<cfgVars, block, now, modelVars, mutex, schedVars, dispVars, rateVars,
          blVars, callVars, ledgerVars, axonVars>>

(* ----------------------------- constants ------------------------------- *)
\* serving threads that may run backward_callback concurrently
Dispatchers == {"d1", "d2"}
\* serving threads that may run time_check concurrently
Checkers == {"t1", "t2"}
Pubkeys == {"pk1", "pk2"}
\* bittensor.proto.Synapse.SynapseType values a request may carry; the axon built
\* at lines 247-254 has a key for the first three, "UNKNOWN" is in no key set
SynapseTypes == {"TEXT_LAST_HIDDEN_STATE", "TEXT_CAUSAL_LM", "TEXT_SEQ_2_SEQ"}
Faults == {"none", "callback", "backward"}
\* one synapse of a call: its type, inputs_x[index].size(0), and whether the
\* registered callback or the backward pass raises on it
Items == [synapse_type : SynapseTypes \cup {"UNKNOWN"}, samples : 1..MaxSamples,
          fault : Faults]

RECURSIVE SeqsUpTo(_, _)
SeqsUpTo(S, n) ==
    IF n = 0 THEN {<<>>}
    ELSE LET shorter == SeqsUpTo(S, n - 1)
         IN  shorter \cup {Append(s, x) : s \in {t \in shorter : Len(t) = n - 1}, x \in S}

(* ------------------- backward_callback (lines 189-243) ------------------ *)
\* Python truthiness of the three objects named in the with statement: a Lock,
\* an enable_grad instance and a set_detect_anomaly instance define neither
\* __bool__ nor __len__, so each is true
Truthy(obj) == obj \notin {"None", "False"}

\* Python `a and b`: a when a is false, else b
PyAnd(a, b) == IF Truthy(a) THEN b ELSE a

\* the one object whose __enter__/__exit__ the with statement of line 218 calls
WithContext == PyAnd(PyAnd("mutex", "enable_grad"), "set_detect_anomaly")

\* line 221: synapse_type in axon.synapse_callbacks and the entry is not None
HasCallback(synapse_type) ==
    /\ synapse_type \in DOMAIN synapse_callbacks
    /\ synapse_callbacks[synapse_type] # "None"

\* lines 230-241: the three response lists grow together, tensors are all None
AppendResponse(d, code, message) ==
    /\ response_codes' = [response_codes EXCEPT ![d] = Append(@, code)]
    /\ response_messages' = [response_messages EXCEPT ![d] = Append(@, message)]

\* DispatchCall without the early return of lines 214-215
DispatchCallUnguarded(d, syns) ==
    /\ pcD[d] \in {"idle", "returned"}
    /\ synapses' = [synapses EXCEPT ![d] = syns]
    /\ response_codes' = [response_codes EXCEPT ![d] = <<>>]
    /\ response_messages' = [response_messages EXCEPT ![d] = <<>>]
    /\ index' = [index EXCEPT ![d] = 1]
    /\ invoked' = [invoked EXCEPT ![d] = 0]
    /\ ncalls' = [ncalls EXCEPT ![d] = @ + 1]
    /\ count_at_call' = [count_at_call EXCEPT ![d] = backward_gradients_count]
    /\ pcD' = [pcD EXCEPT ![d] = "with"]
    /\ UNCHANGED <<cfgVars, axonVars, ledgerVars, blVars, callVars, block, now, modelVars, mutex, schedVars, rateVars,
                   entered, count_read>>

\* lines 209-215: fresh response lists; return at once when remote_train is off
DispatchCall(d, syns) ==
    /\ pcD[d] \in {"idle", "returned"}
    /\ synapses' = [synapses EXCEPT ![d] = syns]
    /\ response_codes' = [response_codes EXCEPT ![d] = <<>>]
    /\ response_messages' = [response_messages EXCEPT ![d] = <<>>]
    /\ index' = [index EXCEPT ![d] = 1]
    /\ invoked' = [invoked EXCEPT ![d] = 0]
    /\ ncalls' = [ncalls EXCEPT ![d] = @ + 1]
    /\ count_at_call' = [count_at_call EXCEPT ![d] = backward_gradients_count]
    /\ pcD' = [pcD EXCEPT ![d] = IF remote_train THEN "with" ELSE "returned"]
    /\ UNCHANGED <<cfgVars, axonVars, ledgerVars, blVars, callVars, block, now, modelVars, mutex, schedVars, rateVars,
                   entered, count_read>>

\* line 218: __enter__ of the with statement's context manager
DispatchEnter(d) ==
    /\ pcD[d] = "with"
    /\ entered' = [entered EXCEPT ![d] = WithContext]
    /\ IF WithContext = "mutex"
       THEN mutex = "free" /\ mutex' = d
       ELSE UNCHANGED mutex
    /\ pcD' = [pcD EXCEPT ![d] = "loop"]
    /\ UNCHANGED <<cfgVars, axonVars, ledgerVars, blVars, callVars, block, now, modelVars, schedVars, rateVars, synapses,
                   index, response_codes, response_messages, count_read, ncalls,
                   invoked, count_at_call>>

\* DispatchItem with the try/except around the loop instead of inside it: the
\* first failing synapse ends the batch
DispatchItemAborts(d) ==
    /\ pcD[d] = "loop"
    /\ index[d] <= Len(synapses[d])
    /\ LET synapse == synapses[d][index[d]] IN
       IF ~HasCallback(synapse.synapse_type)
       THEN /\ AppendResponse(d, "NotImplemented", "Not Implemented")
            /\ index' = [index EXCEPT ![d] = @ + 1]
            /\ UNCHANGED <<pcD, invoked, grad, count_read>>
       ELSE /\ invoked' = [invoked EXCEPT ![d] = @ + 1]
            /\ IF synapse.fault # "none"
               THEN /\ AppendResponse(d, "UnknownException", synapse.fault)
                    /\ index' = [index EXCEPT ![d] = Len(synapses[d]) + 1]
                    /\ UNCHANGED <<pcD, grad, count_read>>
               ELSE /\ grad' = grad + 1
                    /\ pcD' = [pcD EXCEPT ![d] = "load"]
                    /\ UNCHANGED <<index, response_codes, response_messages,
                                   count_read>>
    /\ UNCHANGED <<cfgVars, axonVars, ledgerVars, blVars, callVars, block, now, mutex, schedVars, rateVars, synapses, entered,
                   ncalls, count_at_call, backward_gradients_count,
                   backward_gradients, optimizer_steps, best_loss, saved, lr>>

\* lines 219-228 (the callback and the backward pass) and 233-241 for one
\* synapse
DispatchItem(d) ==
    /\ pcD[d] = "loop"
    /\ index[d] <= Len(synapses[d])
    /\ LET synapse == synapses[d][index[d]] IN
       IF ~HasCallback(synapse.synapse_type)
       THEN /\ AppendResponse(d, "NotImplemented", "Not Implemented")
            /\ index' = [index EXCEPT ![d] = @ + 1]
            /\ UNCHANGED <<pcD, invoked, grad, count_read>>
       ELSE /\ invoked' = [invoked EXCEPT ![d] = @ + 1]
            /\ IF synapse.fault # "none"
               THEN /\ AppendResponse(d, "UnknownException", synapse.fault)
                    /\ index' = [index EXCEPT ![d] = @ + 1]
                    /\ UNCHANGED <<pcD, grad, count_read>>
               ELSE /\ grad' = grad + 1
                    /\ pcD' = [pcD EXCEPT ![d] = "load"]
                    /\ UNCHANGED <<index, response_codes, response_messages,
                                   count_read>>
    /\ UNCHANGED <<cfgVars, axonVars, ledgerVars, blVars, callVars, block, now, mutex, schedVars, rateVars, synapses, entered,
                   ncalls, count_at_call, backward_gradients_count,
                   backward_gradients, optimizer_steps, best_loss, saved, lr>>

\* line 229, the load of model.backward_gradients_count that begins the +=
DispatchLoad(d) ==
    /\ pcD[d] = "load"
    /\ count_read' = [count_read EXCEPT ![d] = backward_gradients_count]
    /\ pcD' = [pcD EXCEPT ![d] = "count"]
    /\ UNCHANGED <<cfgVars, axonVars, ledgerVars, blVars, callVars, block, now, modelVars,
                   mutex, schedVars, rateVars, synapses, index, response_codes,
                   response_messages, entered, ncalls, invoked, count_at_call>>

\* DispatchCount counting synapses instead of samples
DispatchCountPerItem(d) ==
    /\ pcD[d] = "count"
    /\ backward_gradients_count' = count_read[d] + 1
    /\ AppendResponse(d, "Success", "Success")
    /\ index' = [index EXCEPT ![d] = @ + 1]
    /\ count_read' = [count_read EXCEPT ![d] = 0]
    /\ pcD' = [pcD EXCEPT ![d] = "loop"]
    /\ UNCHANGED <<cfgVars, axonVars, ledgerVars, blVars, callVars, block, now, mutex, schedVars, rateVars, synapses, entered,
                   ncalls, invoked, count_at_call, backward_gradients,
                   grad, optimizer_steps, best_loss, saved, lr>>

\* line 229 (the store of the sum) to line 232
DispatchCount(d) ==
    /\ pcD[d] = "count"
    /\ backward_gradients_count' = count_read[d] + synapses[d][index[d]].samples
    /\ AppendResponse(d, "Success", "Success")
    /\ index' = [index EXCEPT ![d] = @ + 1]
    /\ count_read' = [count_read EXCEPT ![d] = 0]
    /\ pcD' = [pcD EXCEPT ![d] = "loop"]
    /\ UNCHANGED <<cfgVars, axonVars, ledgerVars, blVars, callVars, block, now, mutex, schedVars, rateVars, synapses, entered,
                   ncalls, invoked, count_at_call, backward_gradients,
                   grad, optimizer_steps, best_loss, saved, lr>>

\* end of the for loop: __exit__ of the with statement, then line 243
DispatchExit(d) ==
    /\ pcD[d] = "loop"
    /\ index[d] > Len(synapses[d])
    /\ IF entered[d] = "mutex" THEN mutex' = "free" ELSE UNCHANGED mutex
    /\ pcD' = [pcD EXCEPT ![d] = "returned"]
    /\ UNCHANGED <<cfgVars, axonVars, ledgerVars, blVars, callVars, block, now, modelVars, schedVars, rateVars, synapses,
                   index, response_codes, response_messages, entered, count_read,
                   ncalls, invoked, count_at_call>>

(* ------------- optimizer_step (lines 103-105, axon.optimizer_step) ------ *)
\* lines 103-104: the axon calls the function published at line 256, which
\* begins with optimizer.step()
AxonOptimizerStep ==
    /\ pcA = "idle"
    /\ optimizer_steps < MaxOptimizerSteps
    /\ optimizer_steps' = optimizer_steps + 1
    /\ pcA' = "zero_grad"
    /\ UNCHANGED <<cfgVars, ledgerVars, blVars, callVars, block, now, mutex,
                   schedVars, dispVars, rateVars, backward_gradients_count,
                   backward_gradients, grad, best_loss, saved, lr>>

\* line 105: optimizer.zero_grad(), after which the function returns
AxonZeroGrad ==
    /\ pcA = "zero_grad"
    /\ grad' = 0
    /\ pcA' = "idle"
    /\ UNCHANGED <<cfgVars, ledgerVars, blVars, callVars, block, now, mutex,
                   schedVars, dispVars, rateVars, backward_gradients_count,
                   backward_gradients, optimizer_steps, best_loss, saved, lr>>

\* axon.optimizer_step called from a serving thread
optimizer_step == AxonOptimizerStep \/ AxonZeroGrad

(* ------------------ the control loop (lines 277-373) -------------------- *)
\* line 327 with <= for <
FracLessOrEqual(a, b) == a[1] * b[2] <= b[1] * a[2]

\* a loss average losses / iteration as the fraction <<numerator, denominator>>;
\* <<1, 0>> stands for the +infinity a fresh model's best_loss holds
FracLess(a, b) == a[1] * b[2] < b[1] * a[2]

SchedFrame == <<cfgVars, axonVars, blVars, callVars, now, mutex, dispVars, rateVars>>

\* the chain produces a block (external to the program)
BlockTick ==
    /\ block < MaxBlock
    /\ block' = block + 1
    /\ UNCHANGED <<cfgVars, axonVars, ledgerVars, blVars, callVars, now, modelVars, mutex, schedVars, dispVars, rateVars>>

\* lines 283-288
EpochStart ==
    /\ pcS = "EPOCH_START"
    /\ iteration' = 0
    /\ local_data' = <<>>
    /\ current_block' = block
    /\ end_block' = block + blocks_per_epoch
    /\ epoch_losses' = <<>>
    /\ uid' = hotkey_uid
    /\ pcS' = "TRAIN_OR_WAIT"
    /\ UNCHANGED <<SchedFrame, ledgerVars, set_weights_calls, commit_attempts, count_at_update, block,
                   modelVars, last_set_block, losses, did_set>>

\* lines 291-298 with the test of line 294 left out: losses += loss on every
\* iteration once losses is bound
TrainStepAccumulates(loss) ==
    /\ pcS = "TRAIN_OR_WAIT"
    /\ local_train
    /\ end_block >= current_block
    /\ current_block # block
    /\ losses' = IF losses # <<>> THEN <<losses[1] + loss>> ELSE <<loss>>
    /\ iteration' = iteration + 1
    /\ epoch_losses' = Append(epoch_losses, loss)
    /\ pcS' = "TRAIN_READ"
    /\ UNCHANGED <<SchedFrame, ledgerVars, uid, set_weights_calls, commit_attempts, count_at_update,
                   block, modelVars, current_block, end_block,
                   last_set_block, local_data, did_set>>

\* lines 291-298 with the test of line 292 left out: a batch on every pass
TrainStepEveryPass(loss) ==
    /\ pcS = "TRAIN_OR_WAIT"
    /\ local_train
    /\ end_block >= current_block
    /\ losses' = IF iteration > 0 THEN <<losses[1] + loss>> ELSE <<loss>>
    /\ iteration' = iteration + 1
    /\ epoch_losses' = Append(epoch_losses, loss)
    /\ pcS' = "TRAIN_READ"
    /\ UNCHANGED <<SchedFrame, ledgerVars, uid, set_weights_calls, commit_attempts, count_at_update,
                   block, modelVars, current_block, end_block,
                   last_set_block, local_data, did_set>>

\* lines 291-298: one pass of the training loop that sees a new block and pulls a
\* batch (a pass that sees the same block changes nothing)
TrainStep(loss) ==
    /\ pcS = "TRAIN_OR_WAIT"
    /\ local_train
    /\ end_block >= current_block
    /\ current_block # block
    /\ losses' = IF iteration > 0 THEN <<losses[1] + loss>> ELSE <<loss>>
    /\ iteration' = iteration + 1
    /\ epoch_losses' = Append(epoch_losses, loss)
    /\ pcS' = "TRAIN_READ"
    /\ UNCHANGED <<SchedFrame, ledgerVars, uid, set_weights_calls, commit_attempts, count_at_update,
                   block, modelVars, current_block, end_block,
                   last_set_block, local_data, did_set>>

\* line 299
TrainRead ==
    /\ pcS = "TRAIN_READ"
    /\ current_block' = block
    /\ pcS' = "TRAIN_OR_WAIT"
    /\ UNCHANGED <<SchedFrame, ledgerVars, uid, epoch_losses, set_weights_calls, commit_attempts, count_at_update, block,
                   modelVars, iteration, end_block,
                   last_set_block, losses, local_data, did_set>>

\* lines 306-307 with line 308 left out: a sleep that never reads the block
WaitPollStale ==
    /\ pcS = "TRAIN_OR_WAIT"
    /\ ~local_train
    /\ end_block >= current_block
    /\ current_block' = current_block
    /\ UNCHANGED <<SchedFrame, ledgerVars, uid, epoch_losses, set_weights_calls, commit_attempts, count_at_update, block,
                   modelVars, pcS, iteration, end_block,
                   last_set_block, losses, local_data, did_set>>

\* lines 306-308: one sleep and one poll of the waiting loop
WaitPoll ==
    /\ pcS = "TRAIN_OR_WAIT"
    /\ ~local_train
    /\ end_block >= current_block
    /\ current_block' = block
    /\ UNCHANGED <<SchedFrame, ledgerVars, uid, epoch_losses, set_weights_calls, commit_attempts, count_at_update, block,
                   modelVars, pcS, iteration, end_block,
                   last_set_block, losses, local_data, did_set>>

\* the loop condition of line 291 or 306 fails; lines 302-303 on the training side
LeaveTrainOrWait ==
    /\ pcS = "TRAIN_OR_WAIT"
    /\ end_block < current_block
    /\ grad' = IF local_train /\ iteration # 0 THEN grad + 1 ELSE grad
    /\ pcS' = "MAYBE_UPDATE"
    /\ UNCHANGED <<SchedFrame, ledgerVars, uid, epoch_losses, set_weights_calls, commit_attempts, count_at_update, block,
                   backward_gradients_count, backward_gradients,
                   optimizer_steps, best_loss, saved, lr, iteration, current_block,
                   end_block, last_set_block, losses, local_data, did_set>>

\* line 312 with the condition left out: every epoch is updated
ShouldUpdateAlways == TRUE

\* line 312
ShouldUpdate ==
    \/ local_train /\ iteration > 0
    \/ remote_train /\ backward_gradients_count > 0

\* lines 314-317, the rate 0.1/c as the fraction <<1, 10 * c>>
LearningRate ==
    IF backward_gradients_count > 0
    THEN <<1, 10 * backward_gradients_count>>
    ELSE <<1, 10>>

\* lines 312-319
MaybeUpdate ==
    /\ pcS = "MAYBE_UPDATE"
    /\ IF ShouldUpdate
       THEN lr' = LearningRate /\ pcS' = "OPTIMIZER_STEP"
       ELSE UNCHANGED lr /\ pcS' = "REPORT"
    /\ UNCHANGED <<SchedFrame, ledgerVars, uid, epoch_losses, set_weights_calls, commit_attempts, count_at_update, block,
                   backward_gradients_count, backward_gradients,
                   grad, optimizer_steps, best_loss, saved, iteration, current_block,
                   end_block, last_set_block, losses, local_data, did_set>>

\* lines 320-321: clip_grad_norm_ and optimizer.step()
OptimizerStep ==
    /\ pcS = "OPTIMIZER_STEP"
    /\ optimizer_steps' = optimizer_steps + 1
    /\ pcS' = "ZERO_GRAD"
    /\ UNCHANGED <<SchedFrame, ledgerVars, uid, epoch_losses, set_weights_calls, commit_attempts, count_at_update, block,
                   backward_gradients_count, backward_gradients,
                   grad, best_loss, saved, lr, iteration, current_block, end_block,
                   last_set_block, losses, local_data, did_set>>

\* lines 322-323: optimizer.zero_grad() and the assignment to
\* model.backward_gradients
ZeroGrad ==
    /\ pcS = "ZERO_GRAD"
    /\ grad' = 0
    /\ backward_gradients' = "zero"
    /\ count_at_update' = backward_gradients_count
    /\ pcS' = "LOSS"
    /\ UNCHANGED <<SchedFrame, ledgerVars, uid, epoch_losses, set_weights_calls, commit_attempts, block,
                   backward_gradients_count, optimizer_steps,
                   best_loss, saved, lr, iteration, current_block, end_block,
                   last_set_block, losses, local_data, did_set>>

\* lines 325-329: losses is a local that only line 295/297 binds
RecordLoss ==
    /\ pcS = "LOSS"
    /\ IF losses = <<>>
       THEN pcS' = "RAISED_UnboundLocalError" /\ UNCHANGED <<local_data, best_loss, saved>>
       ELSE IF iteration = 0
       THEN pcS' = "RAISED_ZeroDivisionError" /\ UNCHANGED <<local_data, best_loss, saved>>
       ELSE /\ local_data' = <<losses[1], iteration>>
            /\ IF FracLess(<<losses[1], iteration>>, best_loss)
               THEN best_loss' = <<losses[1], iteration>> /\ saved' = saved + 1
               ELSE UNCHANGED <<best_loss, saved>>
            /\ pcS' = "REPORT"
    /\ UNCHANGED <<SchedFrame, ledgerVars, uid, epoch_losses, set_weights_calls, commit_attempts, count_at_update, block,
                   backward_gradients_count, backward_gradients,
                   grad, optimizer_steps, lr, iteration, current_block, end_block,
                   last_set_block, losses, did_set>>

\* lines 331-349
Report ==
    /\ pcS = "REPORT"
    /\ pcS' = "MAYBE_COMMIT_WEIGHTS"
    /\ UNCHANGED <<SchedFrame, ledgerVars, uid, epoch_losses, set_weights_calls, commit_attempts, count_at_update, block,
                   modelVars, iteration, current_block, end_block,
                   last_set_block, losses, local_data, did_set>>

\* line 351 with >= for >
CommitDueInclusive == current_block - last_set_block >= blocks_per_set_weights

\* torch.arange(0, m) as the sequence <<0, ..., m - 1>>
Arange(m) == [k \in 1..m |-> k - 1]

\* lines 358-359: torch.zeros(m) with a 1 at index u, as a sequence whose entry
\* k + 1 is the weight of uid k
SelfWeights(m, u) == [k \in 1..m |-> IF k - 1 = u THEN 1 ELSE 0]

\* the arguments and the outcome of a set_weights call made when the chain had
\* subtensor_n peers at line 358 and joined more at line 361
SetWeightsCall(outcome, joined) ==
    [at |-> current_block, wait_for_inclusion |-> FALSE, outcome |-> outcome,
     uids |-> Arange(subtensor_n + joined),
     weights |-> SelfWeights(subtensor_n, uid),
     uid |-> uid, n |-> subtensor_n + joined]

\* lines 358-359 raise before set_weights is called: a read of subtensor.n that
\* fails (outcome "raised_before_call"), or the IndexError of chain_weights[uid]
\* when uid is not below the size read at line 358
RaisesBeforeCall(outcome) ==
    outcome = "raised_before_call" \/ uid >= subtensor_n

\* the try of line 352 entered at current_block, and whether it gets as far as
\* the call of line 360
CommitAttempt(outcome) ==
    [at |-> current_block, called |-> ~RaisesBeforeCall(outcome)]

\* lines 351-365 with line 355 moved after the call: last_set_block follows only
\* a set_weights that returned True
MaybeCommitWeightsOnSuccess(outcome) ==
    /\ pcS = "MAYBE_COMMIT_WEIGHTS"
    /\ IF current_block - last_set_block > blocks_per_set_weights
       THEN /\ last_set_block' = IF outcome = "true" THEN current_block
                                 ELSE last_set_block
            /\ commit_attempts' = Append(commit_attempts,
                                         CommitAttempt(outcome))
            /\ IF RaisesBeforeCall(outcome)
               THEN /\ pcS' = "EPOCH_START"
                    /\ UNCHANGED <<did_set, set_weights_calls>>
               ELSE /\ set_weights_calls' = Append(set_weights_calls,
                                                   SetWeightsCall(outcome, 0))
                    /\ did_set' = IF outcome = "raised" THEN did_set ELSE outcome
                    /\ pcS' = IF outcome = "raised" THEN "EPOCH_START"
                              ELSE "METAGRAPH_SYNC"
       ELSE /\ pcS' = "EPOCH_START"
            /\ UNCHANGED <<last_set_block, did_set, set_weights_calls,
                           commit_attempts>>
    /\ UNCHANGED <<SchedFrame, ledgerVars, uid, epoch_losses, count_at_update,
                   block, modelVars, iteration, current_block, end_block, losses,
                   local_data>>

\* line 351: the condition under which the weights are set
CommitDue == current_block - last_set_block > blocks_per_set_weights

\* lines 351-365 and 372-373: the try of line 352 catches every Exception, and
\* line 355 runs before anything that queries the chain.  subtensor.n is read
\* at line 358 for the weights and again at line 361 for the uids ("query the
\* chain for the most current number of peers", line 357): joined peers
\* register between the two reads.  When the try raises before line 360 no
\* call is made; otherwise set_weights is called and returns True, returns
\* False or raises.  A raise leaves the assignment of line 360 undone, so
\* did_set keeps its value, and goes to the except of line 372, past line 367;
\* a call that returns, True or False, is followed by metagraph.sync()
CommitWeights(outcome, joined) ==
    /\ pcS = "MAYBE_COMMIT_WEIGHTS"
    /\ IF CommitDue
       THEN /\ last_set_block' = current_block
            /\ commit_attempts' = Append(commit_attempts,
                                         CommitAttempt(outcome))
            /\ subtensor_n' = subtensor_n + joined
            /\ IF RaisesBeforeCall(outcome)
               THEN /\ pcS' = "EPOCH_START"
                    /\ UNCHANGED <<did_set, set_weights_calls>>
               ELSE /\ set_weights_calls' = Append(set_weights_calls,
                                                   SetWeightsCall(outcome, joined))
                    /\ did_set' = IF outcome = "raised" THEN did_set ELSE outcome
                    /\ pcS' = IF outcome = "raised" THEN "EPOCH_START"
                              ELSE "METAGRAPH_SYNC"
       ELSE /\ pcS' = "EPOCH_START"
            /\ UNCHANGED <<last_set_block, did_set, set_weights_calls,
                           commit_attempts, subtensor_n>>
    /\ UNCHANGED <<SchedFrame, hotkey_uid, metagraph_syncs, uid, epoch_losses,
                   count_at_update, block, modelVars, iteration, current_block,
                   end_block, losses, local_data>>

\* lines 351-365 on a chain nobody joins during the call
MaybeCommitWeights(outcome) == CommitWeights(outcome, 0)

\* lines 367-371: metagraph.sync(), a second query of the chain made after
\* set_weights has returned, loads the hotkeys the chain has by then, among
\* which the wallet's stands at position refreshed; the logs of lines 368-371
\* change nothing
MetagraphSync(refreshed) ==
    /\ pcS = "METAGRAPH_SYNC"
    /\ metagraph_syncs' = metagraph_syncs + 1
    /\ hotkey_uid' = refreshed
    /\ pcS' = "EPOCH_START"
    /\ UNCHANGED <<SchedFrame, subtensor_n, uid, epoch_losses, count_at_update,
                   block, modelVars, iteration, current_block, end_block,
                   last_set_block, losses, local_data, did_set,
                   set_weights_calls, commit_attempts>>

\* a peer registers on the chain (external to the program)
Register ==
    /\ subtensor_n < MaxPeers
    /\ subtensor_n' = subtensor_n + 1
    /\ UNCHANGED <<cfgVars, axonVars, hotkey_uid, metagraph_syncs, blVars, callVars,
                   block, now, modelVars, mutex, schedVars, dispVars, rateVars>>

\* one step of the loop, with the losses the model may compute and the outcomes
\* the try of the commit may have
Scheduler(Losses, Outcomes) ==
    \/ EpochStart
    \/ \E loss \in Losses : TrainStep(loss)
    \/ TrainRead \/ WaitPoll \/ LeaveTrainOrWait
    \/ MaybeUpdate \/ OptimizerStep \/ ZeroGrad \/ RecordLoss \/ Report
    \/ \E outcome \in Outcomes : MaybeCommitWeights(outcome)
    \/ MetagraphSync(hotkey_uid)

\* what subtensor.set_weights does when it is called
SetWeightsOutcomes == {"true", "false", "raised"}

\* how the try of lines 352-371 goes up to line 365: the outcome of the call, or
\* a raise before it
TryOutcomes == SetWeightsOutcomes \cup {"raised_before_call"}

(* ----------------------- time_check (lines 145-157) --------------------- *)
\* datetime.now() moves on (external to the program)
Tick ==
    /\ now < MaxTime
    /\ now' = now + 1
    /\ UNCHANGED <<cfgVars, axonVars, ledgerVars, blVars, callVars, block, modelVars, mutex, schedVars, dispVars, rateVars>>

\* line 149 with the window left out of the comparison
WindowElapsedNoWindow(cur, prev) == cur - prev >= 0

\* line 149 with a strict comparison
WindowElapsedStrict(cur, prev) == cur - prev > blacklist_time

\* line 149: current_time - prev_time >= timedelta(seconds = blacklist.time)
WindowElapsed(cur, prev) == cur - prev >= blacklist_time

\* line 153 left out: a rejected call keeps the stored time
StoredOnRejectKeepsOld(cur, prev) == prev

\* line 153: what the rejecting branch stores for the pubkey
StoredOnReject(cur, prev) == cur

\* timecheck[pk] = t on the dict
Put(dict, pk, t) == [q \in DOMAIN dict \cup {pk} |-> IF q = pk THEN t ELSE dict[q]]

\* line 146: the call reads the clock
TimeCheckBegin(t, pk) ==
    /\ pcT[t] = "idle"
    /\ pubkey' = [pubkey EXCEPT ![t] = pk]
    /\ current_time' = [current_time EXCEPT ![t] = now]
    /\ pcT' = [pcT EXCEPT ![t] = "lookup"]
    /\ UNCHANGED <<cfgVars, axonVars, ledgerVars, blVars, callVars, block, now, modelVars, mutex, schedVars, dispVars,
                   timecheck, prev_time, verdict, history>>

\* lines 147-148: membership test and read of the stored time
TimeCheckLookup(t) ==
    /\ pcT[t] = "lookup"
    /\ IF pubkey[t] \in DOMAIN timecheck
       THEN /\ prev_time' = [prev_time EXCEPT ![t] = timecheck[pubkey[t]]]
            /\ pcT' = [pcT EXCEPT ![t] = "compare"]
       ELSE /\ pcT' = [pcT EXCEPT ![t] = "first"]
            /\ UNCHANGED prev_time
    /\ UNCHANGED <<cfgVars, axonVars, ledgerVars, blVars, callVars, block, now, modelVars, mutex, schedVars, dispVars,
                   timecheck, pubkey, current_time, verdict, history>>

\* lines 149-157: the store and the outcome (return False, or raise)
TimeCheckStore(t) ==
    /\ pcT[t] \in {"compare", "first"}
    /\ LET pk == pubkey[t]
           cur == current_time[t]
           accept == pcT[t] = "first" \/ WindowElapsed(cur, prev_time[t])
           stored == IF accept THEN cur ELSE StoredOnReject(cur, prev_time[t])
           outcome == IF accept THEN "accepted" ELSE "rejected"
       IN  /\ timecheck' = Put(timecheck, pk, stored)
           /\ verdict' = [verdict EXCEPT ![t] = outcome]
           /\ history' = [history EXCEPT ![pk] =
                            Append(@, [at |-> cur, verdict |-> outcome])]
    /\ pcT' = [pcT EXCEPT ![t] = "idle"]
    /\ UNCHANGED <<cfgVars, axonVars, ledgerVars, blVars, callVars, block, now, modelVars, mutex, schedVars, dispVars,
                   pubkey, current_time, prev_time>>

(* ------------------------ blacklist (lines 107-171) --------------------- *)
\* bittensor.proto.RequestType values of the second argument
RequestTypes == {"FORWARD", "BACKWARD"}

\* what the metagraph and the configuration hold for a caller: pubkey in
\* metagraph.hotkeys (118), config.neuron.blacklist_allow_non_registered (120),
\* metagraph.S[uid] >= config.neuron.blacklist.stake (130) and
\* (metagraph.W[uid] > 0).sum() >= n_topk_peer_weights (137)
Peers == [is_registered : BOOLEAN, allow_non_registered : BOOLEAN,
          stake_ok : BOOLEAN, is_validator : BOOLEAN]

\* bl before any call
NoBlacklistCall ==
    [pubkey |-> "none", request_type |-> "none", returned |-> "none",
     peer |-> [is_registered |-> FALSE, allow_non_registered |-> FALSE,
               stake_ok |-> FALSE, is_validator |-> FALSE]]

\* lines 116-142: whether a nested check raises; metagraph.hotkeys.index(pubkey)
\* of lines 129 and 135 raises ValueError for a pubkey that is not registered
CheckRaises(check, peer) ==
    CASE check = "registration_check" ->
            ~peer.is_registered /\ ~peer.allow_non_registered
      [] check = "stake_check" -> ~peer.is_registered \/ ~peer.stake_ok
      [] check = "validator_check" -> ~peer.is_registered \/ ~peer.is_validator
      [] OTHER -> FALSE

\* the try body with every nested check called, time_check last
ChecksCalledAll ==
    <<"registration_check", "stake_check", "validator_check", "time_check">>

\* lines 160-167: the nested checks the try body calls, in order: the three
\* calls are commented out and time_check is called nowhere
ChecksCalled == <<>>

\* time_check is reached when it is called and no earlier check has raised
TimeCheckRuns(peer) ==
    \E i \in 1..Len(ChecksCalled) :
        /\ ChecksCalled[i] = "time_check"
        /\ \A j \in 1..(i - 1) : ~CheckRaises(ChecksCalled[j], peer)

\* lines 159-170: return False unless a called check raises, then return True
Blacklist(pk, request_type, peer) ==
    LET raises ==
            \/ \E i \in 1..Len(ChecksCalled) : CheckRaises(ChecksCalled[i], peer)
            \/ /\ TimeCheckRuns(peer)
               /\ pk \in DOMAIN timecheck
               /\ ~WindowElapsed(now, timecheck[pk])
    IN  /\ bl' = [pubkey |-> pk, request_type |-> request_type, peer |-> peer,
                  returned |-> IF raises THEN "True" ELSE "False"]
        /\ timecheck' = IF TimeCheckRuns(peer) THEN Put(timecheck, pk, now)
                         ELSE timecheck
        /\ UNCHANGED <<cfgVars, axonVars, ledgerVars, callVars, block, now, modelVars, mutex, schedVars,
                       dispVars, pcT, pubkey, current_time, prev_time, verdict,
                       history>>

(* ------- from_forward_response_proto (call.py lines 120-127) ------------ *)
\* bittensor.proto.ReturnCode values a response may carry
ReturnCodes == {"Success", "Timeout", "UnknownException"}

\* response_proto.message, a string as the sequence of its parts
Messages == {<<>>, <<"timed out">>}

\* tensors a server may have generated
Tensors == {"g1", "g2"}

\* response_proto: serialized_generations is the tensor as written by the
\* serializer of generations_serializer_type (MSGPACK, line 42)
ResponseProtos ==
    [return_code : ReturnCodes, message : Messages,
     serialized_generations : [serializer : {"MSGPACK"}, data : Tensors]]

\* lines 125-126: generations_deserializer.deserialize(..., to_type = TORCH)
Deserialize(serialized) == serialized.data

\* the text of the exception of line 123
RemoteFailure(message) == <<"Remote Server Failure: ">> \o message

\* lines 120-127 with the test of line 122 left out
FromForwardResponseProtoUnchecked(response_proto) ==
    /\ Len(responses) < MaxResponses
    /\ responses' = Append(responses, response_proto)
    /\ raised' = <<>>
    /\ deserialized' = deserialized + 1
    /\ generations' = Deserialize(response_proto.serialized_generations)
    /\ UNCHANGED <<cfgVars, axonVars, ledgerVars, blVars, block, now, modelVars, mutex, schedVars,
                   dispVars, rateVars, requests>>

\* lines 120-127
FromForwardResponseProto(response_proto) ==
    /\ Len(responses) < MaxResponses
    /\ responses' = Append(responses, response_proto)
    /\ IF response_proto.return_code # "Success"
       THEN /\ raised' = RemoteFailure(response_proto.message)
            /\ UNCHANGED <<generations, deserialized>>
       ELSE /\ raised' = <<>>
            /\ deserialized' = deserialized + 1
            /\ generations' = Deserialize(response_proto.serialized_generations)
    /\ UNCHANGED <<cfgVars, axonVars, ledgerVars, blVars, block, now, modelVars, mutex, schedVars,
                   dispVars, rateVars, requests>>

\* lines 129-136: the same test, raise and assignment as lines 120-127, under
\* the name from_forward_request_proto
FromForwardRequestProto(response_proto) ==
    /\ Len(requests) < MaxRequests
    /\ requests' = Append(requests, response_proto)
    /\ IF response_proto.return_code # "Success"
       THEN /\ raised' = RemoteFailure(response_proto.message)
            /\ UNCHANGED <<generations, deserialized>>
       ELSE /\ raised' = <<>>
            /\ deserialized' = deserialized + 1
            /\ generations' = Deserialize(response_proto.serialized_generations)
    /\ UNCHANGED <<cfgVars, axonVars, ledgerVars, blVars, block, now, modelVars, mutex, schedVars,
                   dispVars, rateVars, responses>>

(* -------------------------- initial states ------------------------------ *)
\* lines 250-252: every synapse type has a key, bound to a callback or to None
CallbackMaps == [SynapseTypes -> {"callback", "None"}]

\* a ledger of two peers, the wallet's hotkey being the second
FixedLedger == subtensor_n = 2 /\ hotkey_uid = 1

\* the state serve() holds when the loop of line 281 is first reached; uid is
\* unbound (-1) until line 286
Start ==
    /\ block = 0 /\ now = 0
    /\ backward_gradients_count = 0 /\ backward_gradients = "unset"
    /\ grad = 0 /\ optimizer_steps = 0
    /\ best_loss = <<1, 0>> /\ saved = 0 /\ lr = <<1, 100>>
    /\ mutex = "free"
    /\ pcS = "EPOCH_START" /\ iteration = 0 /\ current_block = 0 /\ end_block = 0
    /\ last_set_block = 0 /\ losses = <<>> /\ local_data = <<>> /\ did_set = "none"
    /\ metagraph_syncs = 0
    /\ pcD = [d \in Dispatchers |-> "idle"]
    /\ synapses = [d \in Dispatchers |-> <<>>]
    /\ index = [d \in Dispatchers |-> 1]
    /\ response_codes = [d \in Dispatchers |-> <<>>]
    /\ response_messages = [d \in Dispatchers |-> <<>>]
    /\ entered = [d \in Dispatchers |-> "none"]
    /\ count_read = [d \in Dispatchers |-> 0]
    /\ ncalls = [d \in Dispatchers |-> 0]
    /\ invoked = [d \in Dispatchers |-> 0]
    /\ count_at_call = [d \in Dispatchers |-> 0]
    /\ timecheck = [q \in {} |-> 0]
    /\ pcT = [t \in Checkers |-> "idle"]
    /\ pubkey = [t \in Checkers |-> "pk1"]
    /\ current_time = [t \in Checkers |-> 0]
    /\ prev_time = [t \in Checkers |-> 0]
    /\ verdict = [t \in Checkers |-> "none"]
    /\ history = [q \in Pubkeys |-> <<>>]
    /\ set_weights_calls = <<>> /\ commit_attempts = <<>> /\ count_at_update = 0
    /\ epoch_losses = <<>> /\ uid = -1
    /\ pcA = "idle"
    /\ bl = NoBlacklistCall
    /\ generations = "None" /\ responses = <<>> /\ raised = <<>>
    /\ requests = <<>>
    /\ deserialized = 0

\* the control loop with two serving threads in backward_callback
Init ==
    /\ Start /\ FixedLedger
    /\ remote_train \in BOOLEAN /\ local_train \in BOOLEAN
    /\ blocks_per_epoch \in 0..MaxBlocksPerEpoch
    /\ blocks_per_set_weights = MaxBlocksPerSetWeights
    /\ blacklist_time = MaxBlacklistTime
    /\ synapse_callbacks \in {cb \in CallbackMaps : \A k \in SynapseTypes :
                                cb[k] = IF k = "TEXT_SEQ_2_SEQ" THEN "callback" ELSE "None"}

\* synapse lists the concurrent callers send: one seq2seq request of one sample
\* that does not fail
ConcurrentBatches ==
    {<<it>> : it \in {i \in Items : /\ i.synapse_type = "TEXT_SEQ_2_SEQ"
                                    /\ i.fault = "none" /\ i.samples = 1}}

Dispatch(d) ==
    \/ /\ ncalls[d] < MaxCalls /\ pcD[d] \in {"idle", "returned"}
       /\ \E syns \in ConcurrentBatches : DispatchCall(d, syns)
    \/ DispatchEnter(d) \/ DispatchItem(d) \/ DispatchLoad(d)
    \/ DispatchCount(d) \/ DispatchExit(d)

Next ==
    \/ BlockTick
    \/ Scheduler({MaxLoss}, {"true"})
    \/ optimizer_step
    \/ \E d \in Dispatchers : Dispatch(d)

Spec == Init /\ [][Next]_vars

\* one call of backward_callback, under every callback map, with synapse lists of
\* one-sample requests of every type and fault
InitDispatch ==
    /\ Start /\ FixedLedger
    /\ remote_train \in BOOLEAN /\ local_train = FALSE
    /\ blocks_per_epoch = 0 /\ blocks_per_set_weights = 0
    /\ blacklist_time = 0
    /\ synapse_callbacks \in CallbackMaps

DispatchBatches ==
    SeqsUpTo({it \in Items : /\ it.synapse_type # "TEXT_LAST_HIDDEN_STATE"
                             /\ it.samples = 1},
             MaxBatch)

NextDispatch ==
    \/ pcD["d1"] = "idle" /\ \E syns \in DispatchBatches : DispatchCall("d1", syns)
    \/ DispatchEnter("d1") \/ DispatchItem("d1") \/ DispatchLoad("d1")
    \/ DispatchCount("d1")
    \/ DispatchExit("d1")

SpecDispatch == InitDispatch /\ [][NextDispatch]_vars

\* one serving thread making several calls in a row, requests of every sample count
InitCount ==
    /\ Start /\ FixedLedger
    /\ remote_train = TRUE /\ local_train = FALSE
    /\ blocks_per_epoch = 0 /\ blocks_per_set_weights = 0
    /\ blacklist_time = 0
    /\ synapse_callbacks \in {cb \in CallbackMaps : \A k \in SynapseTypes :
                                cb[k] = IF k = "TEXT_SEQ_2_SEQ" THEN "callback" ELSE "None"}

\* seq2seq requests (callback registered) of every sample count that succeed, and
\* requests of MaxSamples samples that fail in the backward pass or are causal-lm
\* (callback None)
CountBatches ==
    SeqsUpTo({it \in Items :
                \/ it.synapse_type = "TEXT_SEQ_2_SEQ" /\ it.fault = "none"
                \/ /\ it.samples = MaxSamples
                   /\ \/ it.synapse_type = "TEXT_SEQ_2_SEQ" /\ it.fault = "backward"
                      \/ it.synapse_type = "TEXT_CAUSAL_LM" /\ it.fault = "none"},
             MaxShortBatch)

NextCount ==
    \/ /\ ncalls["d1"] < MaxSeqCalls /\ pcD["d1"] \in {"idle", "returned"}
       /\ \E syns \in CountBatches : DispatchCall("d1", syns)
    \/ DispatchEnter("d1") \/ DispatchItem("d1") \/ DispatchLoad("d1")
    \/ DispatchCount("d1")
    \/ DispatchExit("d1")

SpecCount == InitCount /\ [][NextCount]_vars

\* the control loop alone
InitSched ==
    /\ Start /\ FixedLedger
    /\ remote_train \in BOOLEAN /\ local_train \in BOOLEAN
    /\ blocks_per_epoch \in 0..MaxBlocksPerEpoch
    /\ blocks_per_set_weights \in 0..MaxBlocksPerSetWeights
    /\ blacklist_time = 0
    /\ synapse_callbacks \in {cb \in CallbackMaps : \A k \in SynapseTypes : cb[k] = "callback"}

NextSched == BlockTick \/ Scheduler(1..MaxLoss, TryOutcomes)

SpecSched == InitSched /\ [][NextSched]_vars

\* the control loop with a chain that keeps producing blocks and a thread that
\* keeps running: serve() is one sequential loop that never blocks but in
\* time.sleep (line 307), and the block height is the chain's
SpecSchedFair ==
    /\ SpecSched
    /\ WF_vars(BlockTick)
    /\ WF_vars(Scheduler(1..MaxLoss, TryOutcomes))

\* time_check called by one serving thread at a time
InitRate ==
    /\ Start /\ FixedLedger
    /\ remote_train = FALSE /\ local_train = FALSE
    /\ blocks_per_epoch = 0 /\ blocks_per_set_weights = 0
    /\ blacklist_time \in 0..MaxBlacklistTime
    /\ synapse_callbacks \in {cb \in CallbackMaps : \A k \in SynapseTypes : cb[k] = "None"}

\* time_check calls begun so far
Started ==
    LET RECURSIVE Total(_)
        Total(S) == IF S = {} THEN 0
                    ELSE LET q == CHOOSE x \in S : TRUE
                         IN  Len(history[q]) + Total(S \ {q})
    IN  Total(Pubkeys) + Cardinality({t \in Checkers : pcT[t] # "idle"})

TimeCheck(t) ==
    \/ Started < MaxChecks /\ \E pk \in Pubkeys : TimeCheckBegin(t, pk)
    \/ TimeCheckLookup(t)
    \/ TimeCheckStore(t)

NextRate == Tick \/ TimeCheck("t1")

SpecRate == InitRate /\ [][NextRate]_vars

\* time_check called by two serving threads at once
NextRateConcurrent == Tick \/ \E t \in Checkers : TimeCheck(t)

SpecRateConcurrent == InitRate /\ [][NextRateConcurrent]_vars

\* blacklist called at any time, for any caller, on a dict that time_check may
\* have written to once
NextBlacklist ==
    \/ Tick
    \/ Started = 0 /\ \E pk \in Pubkeys : TimeCheckBegin("t1", pk)
    \/ TimeCheckLookup("t1") \/ TimeCheckStore("t1")
    \/ \E pk \in Pubkeys, rt \in RequestTypes, peer \in Peers : Blacklist(pk, rt, peer)

SpecBlacklist == InitRate /\ [][NextBlacklist]_vars

\* the control loop on a chain that peers keep joining, also between the two
\* reads of subtensor.n of one commit
InitLedger ==
    /\ Start
    /\ subtensor_n \in 1..(MaxPeers - 1) /\ hotkey_uid \in 0..(subtensor_n - 1)
    /\ remote_train = FALSE /\ local_train \in BOOLEAN
    /\ blocks_per_epoch = 0
    /\ blocks_per_set_weights \in 0..MaxBlocksPerSetWeights
    /\ blacklist_time = 0
    /\ synapse_callbacks \in {cb \in CallbackMaps : \A k \in SynapseTypes : cb[k] = "None"}

NextLedger ==
    \/ BlockTick \/ Register
    \/ EpochStart
    \/ TrainStep(MaxLoss)
    \/ TrainRead \/ WaitPoll \/ LeaveTrainOrWait
    \/ MaybeUpdate \/ OptimizerStep \/ ZeroGrad \/ RecordLoss \/ Report
    \/ \E outcome \in TryOutcomes, joined \in 0..MaxJoined :
          subtensor_n + joined <= MaxPeers /\ CommitWeights(outcome, joined)
    \/ \E refreshed \in 0..(subtensor_n - 1) : MetagraphSync(refreshed)

SpecLedger == InitLedger /\ [][NextLedger]_vars

\* the control loop with one serving thread making backward_callback calls of
\* one succeeding seq2seq request of every sample count
RemoteBatches ==
    {<<it>> : it \in {i \in Items : i.synapse_type = "TEXT_SEQ_2_SEQ" /\ i.fault = "none"}}

NextRemote ==
    \/ BlockTick
    \/ Scheduler({MaxLoss}, {"true"})
    \/ optimizer_step
    \/ /\ ncalls["d1"] < MaxCalls /\ pcD["d1"] \in {"idle", "returned"}
       /\ \E syns \in RemoteBatches : DispatchCall("d1", syns)
    \/ DispatchEnter("d1") \/ DispatchItem("d1") \/ DispatchLoad("d1")
    \/ DispatchCount("d1")
    \/ DispatchExit("d1")

SpecRemote == Init /\ [][NextRemote]_vars

\* one forward call object handed several protos in a row, through either of
\* its two methods
NextCall ==
    \E response_proto \in ResponseProtos :
        \/ FromForwardResponseProto(response_proto)
        \/ FromForwardRequestProto(response_proto)

\* line 84: a new call object has generations = None
InitCall ==
    /\ Start /\ FixedLedger
    /\ remote_train = FALSE /\ local_train = FALSE
    /\ blocks_per_epoch = 0 /\ blocks_per_set_weights = 0
    /\ blacklist_time = 0
    /\ synapse_callbacks \in {cb \in CallbackMaps : \A k \in SynapseTypes : cb[k] = "None"}

SpecCall == InitCall /\ [][NextCall]_vars

(* ------------------------------ properties ------------------------------ *)
\* between __enter__ and __exit__ of the with statement of line 218
InBatch(d) == pcD[d] \in {"loop", "load", "count"}

\* between the decision of line 312 and the end of line 323
InUpdate == pcS \in {"OPTIMIZER_STEP", "ZERO_GRAD"}

\* C1: the per-batch apply sequence of backward_callback and the update section
\* of the loop exclude each other (as they would, each holding the one mutex):
\* no batch is in progress while an update is, and no two batches overlap
C1_MutualExclusion ==
    /\ \A d \in Dispatchers : ~(InBatch(d) /\ InUpdate)
    /\ \A d, e \in Dispatchers : d # e => ~(InBatch(d) /\ InBatch(e))

\* C2: the step that ends an applied update (lines 322-323) leaves
\* model.backward_gradients_count at 0
C2_CounterResetAfterUpdate ==
    [][pcS = "ZERO_GRAD" /\ pcS' = "LOSS" => backward_gradients_count' = 0]_vars

\* samples of the first n synapses of d's call that were answered Success
RECURSIVE SuccessSamples(_, _)
SuccessSamples(d, n) ==
    IF n = 0 THEN 0
    ELSE SuccessSamples(d, n - 1)
         + (IF response_codes[d][n] = "Success" THEN synapses[d][n].samples ELSE 0)

RECURSIVE SumOver(_, _)
SumOver(f, S) ==
    IF S = {} THEN 0
    ELSE LET x == CHOOSE y \in S : TRUE IN f[x] + SumOver(f, S \ {x})

\* C3: once every concurrent call has returned (one call per thread, counter 0
\* before them), the counter equals the samples of all synapses answered Success
C3_NoLostIncrements ==
    (\A d \in Dispatchers : pcD[d] \in {"idle", "returned"} /\ ncalls[d] <= 1)
    => backward_gradients_count
         = SumOver([d \in Dispatchers |-> SuccessSamples(d, Len(response_codes[d]))],
                   Dispatchers)

\* the code the claim gives synapse i of a call: NotImplemented without a
\* non-null registered callback, UnknownException when its callback or backward
\* pass fails, Success otherwise
ClaimedCode(synapse) ==
    IF \/ synapse.synapse_type \notin DOMAIN synapse_callbacks
       \/ synapse_callbacks[synapse.synapse_type] = "None"
    THEN "NotImplemented"
    ELSE IF synapse.fault # "none" THEN "UnknownException" ELSE "Success"

\* C4: with remote_train on, a returned call has one response per synapse, in
\* request order, each with the claimed code, an UnknownException carrying the
\* failure's message; a call in progress has answered exactly the synapses
\* before index
C4_ResultStructure ==
    \A d \in Dispatchers :
        remote_train /\ pcD[d] \in {"loop", "load", "count", "returned"} =>
            /\ Len(response_codes[d]) = Len(response_messages[d])
            /\ Len(response_codes[d]) = index[d] - 1
            /\ pcD[d] = "returned" => Len(response_codes[d]) = Len(synapses[d])
            /\ \A i \in 1..Len(response_codes[d]) :
                  /\ response_codes[d][i] = ClaimedCode(synapses[d][i])
                  /\ response_codes[d][i] = "UnknownException"
                        => response_messages[d][i] = synapses[d][i].fault

\* C4 witness: a returned call whose first synapse has no callback, whose second
\* raised and whose third, processed after it, succeeded
C4_Witness ==
    /\ remote_train /\ pcD["d1"] = "returned"
    /\ response_codes["d1"] = <<"NotImplemented", "UnknownException", "Success">>

\* C5: during and after a call the counter is the value it had when the call
\* began plus the samples of the synapses answered Success so far
C5_ExactAccounting ==
    \A d \in Dispatchers :
        pcD[d] \in {"loop", "returned"} =>
            backward_gradients_count
              = count_at_call[d] + SuccessSamples(d, Len(response_codes[d]))

\* C5 witness: a second call, begun with a nonzero counter, returned with a
\* two-sample Success after a response that is not Success
C5_Witness ==
    /\ pcD["d1"] = "returned" /\ count_at_call["d1"] > 0
    /\ \E i, j \in 1..Len(response_codes["d1"]) :
          /\ j < i
          /\ response_codes["d1"][i] = "Success" /\ synapses["d1"][i].samples = 2
          /\ response_codes["d1"][j] # "Success"

\* C6: with remote_train off no step changes the counter, the gradients or the
\* lock, and a call returns at once with empty response lists, no callback invoked
C6_DisabledNoOp ==
    [][~remote_train =>
          /\ UNCHANGED <<backward_gradients_count, backward_gradients, grad, mutex>>
          /\ \A d \in Dispatchers : ncalls'[d] # ncalls[d] =>
                /\ pcD'[d] = "returned"
                /\ response_codes'[d] = <<>> /\ response_messages'[d] = <<>>
                /\ invoked'[d] = 0]_vars

\* C6 witness: with remote_train off a call with a registered, non-failing synapse
\* has returned
C6_Witness ==
    /\ ~remote_train /\ pcD["d1"] = "returned"
    /\ \E i \in 1..Len(synapses["d1"]) : ClaimedCode(synapses["d1"][i]) = "Success"
    /\ response_codes["d1"] = <<>>

\* C7: a check less than blacklist_time after the previous check of the same
\* pubkey is rejected, and after every check the stored time is that check's own
\* call time
C7_RejectInsideWindow ==
    \A pk \in Pubkeys :
        LET h == history[pk] IN
        /\ \A i \in 2..Len(h) :
              h[i].at - h[i - 1].at < blacklist_time => h[i].verdict = "rejected"
        /\ h # <<>> => pk \in DOMAIN timecheck /\ timecheck[pk] = h[Len(h)].at

\* C7 witness: a second check, later than the first and inside the window, was
\* rejected
C7_Witness ==
    \E pk \in Pubkeys :
        /\ Len(history[pk]) = 2
        /\ history[pk][2].at > history[pk][1].at
        /\ history[pk][2].at - history[pk][1].at < blacklist_time
        /\ history[pk][2].verdict = "rejected"
        /\ timecheck[pk] = history[pk][2].at

\* C8: the first check of a pubkey is accepted, a check blacklist_time or more
\* after the stored time is accepted, and an accepted check stores its call time
C8_AcceptOutsideWindow ==
    \A pk \in Pubkeys :
        LET h == history[pk] IN
        /\ h # <<>> => h[1].verdict = "accepted"
        /\ \A i \in 2..Len(h) :
              h[i].at - h[i - 1].at >= blacklist_time => h[i].verdict = "accepted"
        /\ (h # <<>> /\ h[Len(h)].verdict = "accepted") =>
              pk \in DOMAIN timecheck /\ timecheck[pk] = h[Len(h)].at

\* C8 witness: a check exactly blacklist_time after the previous one was accepted
C8_Witness ==
    \E pk \in Pubkeys :
        /\ blacklist_time > 0 /\ Len(history[pk]) >= 2
        /\ history[pk][2].at - history[pk][1].at = blacklist_time
        /\ history[pk][2].verdict = "accepted"
        /\ timecheck[pk] = history[pk][2].at

\* every check of the prefix of length n came less than blacklist_time after the
\* check before it
Flooding(h, n) == \A j \in 2..n : h[j].at - h[j - 1].at < blacklist_time

\* C9: while a pubkey keeps checking faster than the window, every check after
\* the first is rejected, however long ago the accepted one was
C9_FloodNeverAgesOut ==
    \A pk \in Pubkeys :
        \A i \in 2..Len(history[pk]) :
            Flooding(history[pk], i) => history[pk][i].verdict = "rejected"

\* C9 witness: a flooding pubkey rejected a full window or more after its
\* accepted first check
C9_Witness ==
    \E pk \in Pubkeys :
        LET h == history[pk] IN
        /\ Len(h) >= 3 /\ Flooding(h, Len(h))
        /\ h[Len(h)].at - h[1].at >= blacklist_time
        /\ h[Len(h)].verdict = "rejected"

\* C10: checks of one pubkey behave as if run one after the other: two checks
\* less than blacklist_time apart are never both accepted, and once no check is
\* running the stored time is the latest call time
C10_Synchronized ==
    \A pk \in Pubkeys :
        LET h == history[pk] IN
        /\ \A i, j \in 1..Len(h) :
              (i < j /\ h[i].verdict = "accepted" /\ h[j].verdict = "accepted")
                 => (h[j].at - h[i].at >= blacklist_time
                     \/ h[i].at - h[j].at >= blacklist_time)
        /\ (h # <<>> /\ \A t \in Checkers : pcT[t] = "idle") =>
              \A i \in 1..Len(h) : timecheck[pk] >= h[i].at

\* C11: blacklist returns False for every pubkey and request type, whatever the
\* metagraph, the configuration and the clock hold, and leaves timecheck as it was
C11_BlacklistDisabled ==
    [][bl' # bl => bl'.returned = "False" /\ timecheck' = timecheck]_vars

\* blacklist has admitted an unregistered caller whose key time_check stored
\* at this very second
C11_Witness ==
    /\ bl.returned = "False" /\ ~bl.peer.is_registered
    /\ ~bl.peer.allow_non_registered
    /\ bl.pubkey \in DOMAIN timecheck /\ timecheck[bl.pubkey] = now
    /\ blacklist_time > 0

\* C12: with blocks_per_epoch = 0 the loop is at MAYBE_UPDATE with no training
\* batch pulled (iteration = 0) and with the block it read at EPOCH_START, which
\* is end_block, still its current_block (no block change waited for)
C12_ZeroLengthEpoch ==
    (pcS = "MAYBE_UPDATE" /\ blocks_per_epoch = 0)
        => (iteration = 0 /\ current_block = end_block)

\* C13: the decision of an epoch with no local iteration and a zero counter goes
\* straight to REPORT and changes neither the optimizer, the gradients, the
\* checkpoint, best_loss, the learning rate nor the counter; and the loop's own
\* optimizer step (line 320) is taken, and counted, only when iterations were
\* made or the counter is nonzero
C13_NoWorkEpoch ==
    /\ [][(/\ pcS = "MAYBE_UPDATE" /\ pcS' # pcS
           /\ iteration = 0 /\ backward_gradients_count = 0)
          => (/\ pcS' = "REPORT"
              /\ UNCHANGED <<optimizer_steps, grad, backward_gradients, saved,
                             best_loss, lr, backward_gradients_count>>)]_vars
    /\ [][(pcS = "OPTIMIZER_STEP" /\ pcS' # pcS)
          => (/\ optimizer_steps' = optimizer_steps + 1
              /\ (iteration > 0 \/ backward_gradients_count > 0))]_vars
    /\ [][(optimizer_steps' # optimizer_steps /\ pcA' = pcA)
          => (pcS = "OPTIMIZER_STEP" /\ pcS' # pcS)]_vars
    /\ [](pcS \in {"OPTIMIZER_STEP", "ZERO_GRAD", "LOSS"}
          => (iteration > 0 \/ backward_gradients_count > 0))

\* an epoch without work (remote training enabled but nothing received, local
\* training disabled) has left TRAIN_OR_WAIT and is being reported with nothing
\* stepped or saved
C13_Witness ==
    /\ pcS = "REPORT" /\ iteration = 0 /\ backward_gradients_count = 0
    /\ remote_train /\ ~local_train /\ optimizer_steps = 0 /\ saved = 0
    /\ current_block > end_block

\* C14: the step at MAYBE_COMMIT_WEIGHTS enters the try of the commit exactly
\* when current_block - last_set_block > blocks_per_set_weights, and nothing
\* else enters it or calls set_weights; set_weights is called at most once per
\* attempt, always with wait_for_inclusion = False; an attempt that raises,
\* before the call or in it, leaves did_set as it was and the loop at
\* EPOCH_START, a call that returns (True or False) binds did_set and is
\* followed by the refresh of the metagraph, after which the loop is at
\* EPOCH_START; without an attempt the loop is at EPOCH_START at once
C14_CommitCadence ==
    /\ [][(pcS = "MAYBE_COMMIT_WEIGHTS" /\ pcS' # pcS)
          => (/\ metagraph_syncs' = metagraph_syncs
              /\ IF current_block - last_set_block > blocks_per_set_weights
                 THEN /\ Len(commit_attempts') = Len(commit_attempts) + 1
                      /\ commit_attempts'[Len(commit_attempts')].at = current_block
                      /\ IF commit_attempts'[Len(commit_attempts')].called
                         THEN /\ Len(set_weights_calls')
                                    = Len(set_weights_calls) + 1
                              /\ set_weights_calls'[Len(set_weights_calls')].at
                                    = current_block
                              /\ IF set_weights_calls'[
                                       Len(set_weights_calls')].outcome = "raised"
                                 THEN did_set' = did_set /\ pcS' = "EPOCH_START"
                                 ELSE /\ did_set' = set_weights_calls'[
                                                 Len(set_weights_calls')].outcome
                                      /\ pcS' = "METAGRAPH_SYNC"
                         ELSE /\ UNCHANGED <<set_weights_calls, did_set>>
                              /\ pcS' = "EPOCH_START"
                 ELSE /\ UNCHANGED <<set_weights_calls, commit_attempts>>
                      /\ pcS' = "EPOCH_START")]_vars
    /\ [][(pcS = "METAGRAPH_SYNC" /\ pcS' # pcS)
          => (/\ pcS' = "EPOCH_START"
              /\ metagraph_syncs' = metagraph_syncs + 1
              /\ UNCHANGED <<set_weights_calls, commit_attempts, did_set,
                             last_set_block>>)]_vars
    /\ [][(set_weights_calls' # set_weights_calls
             \/ commit_attempts' # commit_attempts)
          => pcS = "MAYBE_COMMIT_WEIGHTS"]_vars
    /\ [](\A i \in 1..Len(set_weights_calls) :
              ~set_weights_calls[i].wait_for_inclusion)

\* the first attempt was made at block blocks_per_set_weights + 1, one block
\* past the threshold; its call raised, so did_set was never bound and the
\* metagraph was not refreshed, and the next epoch is under way
C14_Witness ==
    /\ commit_attempts = <<[at |-> blocks_per_set_weights + 1, called |-> TRUE]>>
    /\ Len(set_weights_calls) = 1
    /\ set_weights_calls[1].at = blocks_per_set_weights + 1
    /\ set_weights_calls[1].outcome = "raised"
    /\ blocks_per_set_weights = MaxBlocksPerSetWeights
    /\ did_set = "none" /\ metagraph_syncs = 0
    /\ pcS = "TRAIN_OR_WAIT" /\ end_block > set_weights_calls[1].at

\* C15: every commit attempt, whether its call returns True, returns False,
\* raises or is never reached, leaves last_set_block at the current_block of its
\* epoch, and nothing else moves last_set_block; two consecutive attempts are
\* more than blocks_per_set_weights blocks apart; every set_weights call belongs
\* to an attempt; last_set_block never exceeds current_block, and before the
\* first attempt it is the block read at line 277
C15_CommitHeight ==
    /\ last_set_block <= current_block
    /\ IF commit_attempts = <<>> THEN last_set_block = 0
       ELSE last_set_block = commit_attempts[Len(commit_attempts)].at
    /\ \A i \in 1..(Len(commit_attempts) - 1) :
          commit_attempts[i + 1].at - commit_attempts[i].at
              > blocks_per_set_weights
    /\ \A i \in 1..Len(set_weights_calls) :
          \E j \in 1..Len(commit_attempts) :
              /\ commit_attempts[j].called
              /\ commit_attempts[j].at = set_weights_calls[i].at

\* two attempts so far: the first raised before set_weights was called and
\* moved last_set_block all the same, the second made the one call there is
C15_Witness ==
    /\ Len(commit_attempts) = 2
    /\ ~commit_attempts[1].called /\ commit_attempts[2].called
    /\ Len(set_weights_calls) = 1
    /\ set_weights_calls[1].at = commit_attempts[2].at
    /\ last_set_block = commit_attempts[2].at

\* C16: from_forward_response_proto on a response whose return_code is not
\* Success raises the remote-failure error with the response's message in its
\* text, does not invoke the deserializer and leaves generations as it was; on
\* Success it fills generations with the deserialized payload; nothing but a
\* Success proto, handed to it or to from_forward_request_proto, changes
\* generations, and the deserializer runs on every such change
C16_FailureLeavesSlot ==
    /\ [][responses' # responses
          => LET r == responses'[Len(responses')]
                 m == r.message
             IN  IF r.return_code # "Success"
                 THEN /\ raised' # <<>>
                      /\ raised'[1] = "Remote Server Failure: "
                      /\ \E k \in 1..(Len(raised') - Len(m) + 1) :
                            SubSeq(raised', k, k + Len(m) - 1) = m
                      /\ generations' = generations
                      /\ deserialized' = deserialized
                 ELSE /\ raised' = <<>>
                      /\ generations' = r.serialized_generations.data
                      /\ deserialized' = deserialized + 1]_vars
    /\ [][generations' # generations
          => (/\ raised' = <<>>
              /\ deserialized' = deserialized + 1
              /\ \/ /\ responses' # responses
                    /\ responses'[Len(responses')].return_code = "Success"
                 \/ /\ requests' # requests
                    /\ requests'[Len(requests')].return_code = "Success")]_vars

\* a failing response with a message and another payload came after a Success:
\* the call raised and generations still holds the first payload
C16_Witness ==
    /\ Len(responses) = 2
    /\ responses[1].return_code = "Success"
    /\ responses[2].return_code = "Timeout"
    /\ responses[2].message # <<>>
    /\ responses[2].serialized_generations.data
           # responses[1].serialized_generations.data
    /\ generations = responses[1].serialized_generations.data
    /\ deserialized = 1
    /\ raised = <<"Remote Server Failure: ", "timed out">>

\* C17: an epoch without local training whose counter is positive with remote
\* training enabled applies the optimizer step, then passes the loss bookkeeping
\* without computing an average (local_data, best_loss and the checkpoint stay as
\* they were) and goes on to REPORT; the loop never ends in an exception
C17_RemoteOnlyUpdate ==
    /\ [][(/\ pcS = "MAYBE_UPDATE" /\ pcS' # pcS /\ ~local_train /\ remote_train
           /\ iteration = 0 /\ backward_gradients_count > 0)
          => pcS' = "OPTIMIZER_STEP"]_vars
    /\ [][(pcS = "LOSS" /\ pcS' # pcS /\ ~local_train /\ iteration = 0)
          => (pcS' = "REPORT" /\ UNCHANGED <<local_data, best_loss, saved>>)]_vars
    /\ [](pcS \notin {"RAISED_UnboundLocalError", "RAISED_ZeroDivisionError"})

\* C18: best_loss and the checkpoint change only in the loss bookkeeping of the
\* update, only when the epoch's average losses / iteration is strictly below
\* best_loss; best_loss then becomes that average and the checkpoint is saved in
\* the same step; neither changes without the other, and best_loss never grows
C18_BestLossOnlyImproves ==
    /\ [][(best_loss' # best_loss \/ saved' # saved)
          => (/\ pcS = "LOSS" /\ iteration > 0 /\ losses # <<>>
              /\ losses[1] * best_loss[2] < best_loss[1] * iteration
              /\ best_loss' = <<losses[1], iteration>>
              /\ best_loss' # best_loss
              /\ saved' = saved + 1)]_vars
    /\ [][~(best_loss[1] * best_loss'[2] < best_loss'[1] * best_loss[2])]_vars

\* a second update whose average equalled best_loss has been made: one checkpoint
\* only, best_loss as the first update left it
C18_Witness ==
    /\ pcS = "REPORT" /\ optimizer_steps = 2 /\ saved = 1
    /\ local_data # <<>>
    /\ local_data[1] * best_loss[2] = best_loss[1] * local_data[2]

\* C19: the learning rate set for an optimizer step is 0.1 / c when c > 0 samples
\* were counted since the previous applied update, and 0.1 when none were;
\* samples counted before that update have no part in it
C19_AdaptiveLearningRate ==
    [][(pcS = "MAYBE_UPDATE" /\ pcS' = "OPTIMIZER_STEP")
       => LET c == backward_gradients_count - count_at_update
          IN  lr' = IF c > 0 THEN <<1, 10 * c>> ELSE <<1, 10>>]_vars

\* C20: an epoch starts with end_block = current_block + blocks_per_epoch for the
\* block it reads; while the chain can still grow past end_block the loop, with
\* or without local training, leaves TRAIN_OR_WAIT and reaches MAYBE_UPDATE, and
\* it is there only with current_block >= end_block
C20_TrainOrWaitTerminates ==
    /\ [][(pcS = "EPOCH_START" /\ pcS' # pcS)
          => (/\ pcS' = "TRAIN_OR_WAIT" /\ current_block' = block
              /\ end_block' = block + blocks_per_epoch)]_vars
    /\ [](pcS = "MAYBE_UPDATE" => current_block >= end_block)
    /\ (pcS \in {"TRAIN_OR_WAIT", "TRAIN_READ"} /\ end_block < MaxBlock)
           ~> (pcS = "MAYBE_UPDATE")

\* an epoch of blocks_per_epoch = MaxBlocksPerEpoch blocks has ended after one
\* batch per block change
C20_Witness ==
    /\ pcS = "MAYBE_UPDATE" /\ local_train
    /\ blocks_per_epoch = MaxBlocksPerEpoch
    /\ iteration = blocks_per_epoch + 1
    /\ current_block >= end_block

\* sum of a sequence of losses
SumLosses(seq) ==
    LET RECURSIVE Total(_)
        Total(k) == IF k = 0 THEN 0 ELSE seq[k] + Total(k - 1)
    IN  Total(Len(seq))

\* C21: iteration restarts at 0 at each EPOCH_START and counts the epoch's own
\* iterations; once the epoch has an iteration the accumulator holds the sum of
\* that epoch's losses only, and the average of line 325 is that sum over that
\* count
C21_NoLeakAcrossEpochs ==
    /\ [][(pcS = "EPOCH_START" /\ pcS' # pcS) => iteration' = 0]_vars
    /\ [](iteration = Len(epoch_losses))
    /\ [](iteration > 0 => losses = <<SumLosses(epoch_losses)>>)
    /\ [][(pcS = "LOSS" /\ pcS' # pcS /\ iteration > 0)
          => local_data' = <<SumLosses(epoch_losses), Len(epoch_losses)>>]_vars

\* the average of a second epoch with iterations has been computed, the
\* accumulator having held the first epoch's sum when this epoch began
C21_Witness ==
    /\ pcS = "REPORT" /\ optimizer_steps = 2 /\ iteration > 0
    /\ local_data = <<SumLosses(epoch_losses), iteration>>

\* C22: every set_weights call carries the uids 0..n-1 of all n peers the chain
\* has when it is made, and a weight vector of length n that is 1 at the node's
\* own uid and 0 everywhere else
C22_SelfOnlyWeights ==
    \A i \in 1..Len(set_weights_calls) :
        LET c == set_weights_calls[i]
        IN  /\ Len(c.uids) = c.n
            /\ \A k \in 1..c.n : c.uids[k] = k - 1
            /\ Len(c.weights) = c.n
            /\ \A k \in 1..Len(c.weights) :
                  c.weights[k] = IF k - 1 = c.uid THEN 1 ELSE 0
            /\ c.uid \in 0..(c.n - 1)

\* the block the epoch read at line 287
StartBlock == end_block - blocks_per_epoch

\* C23: with local training a batch is pulled only on a poll that differs from
\* current_block, the read that follows it moves current_block up, every batch
\* of the epoch has its own block change behind it, and an epoch pulls at most
\* blocks_per_epoch + 1 batches
C23_BoundedIterations ==
    /\ [][iteration' > iteration
          => (/\ iteration' = iteration + 1 /\ block # current_block
              /\ pcS = "TRAIN_OR_WAIT" /\ pcS' = "TRAIN_READ")]_vars
    /\ [][(pcS = "TRAIN_READ" /\ pcS' # pcS) => current_block' > current_block]_vars
    /\ [](pcS = "TRAIN_READ" => iteration <= current_block - StartBlock + 1)
    /\ [](pcS \in {"TRAIN_OR_WAIT", "MAYBE_UPDATE"}
             => iteration <= current_block - StartBlock)
    /\ [](pcS # "EPOCH_START" => iteration <= blocks_per_epoch + 1)

\* an epoch has pulled blocks_per_epoch + 1 batches, more than one
C23_Witness ==
    /\ pcS = "MAYBE_UPDATE" /\ local_train
    /\ iteration = blocks_per_epoch + 1 /\ iteration > 1
    /\ epoch_losses # <<>>
====
